---- MODULE Spec2Model ----
(***************************************************************************)
(* A model of web-structure (src/src/index.ts): the recursive scraper      *)
(* scraping() / scrapeWebPage(), its retry() helper and the per-field      *)
(* selector extraction.  The browser (puppeteer) is the environment: it    *)
(* answers each navigation with success or failure and serves, for every   *)
(* page, a document and a list of anchors.                                 *)
(***************************************************************************)
EXTENDS Integers, Sequences, FiniteSets, TLC

(***************************************************************************)
(* Bounds of the model.                                                    *)
(***************************************************************************)
\* largest in-range maxDepth a caller asks for
MaxDepthTried == 2
\* largest maxRetries retry is called with
MaxRetriesTried == 3
\* Math.random() returns one of 0/RandomSteps .. (RandomSteps - 1)/RandomSteps
RandomSteps == 4

(***************************************************************************)
(* Helpers on sequences and optional values.                               *)
(***************************************************************************)
Range(s) == {s[i] : i \in 1..Len(s)}

\* an optional value: None is `undefined', Some(x) a present value
None == <<>>
Some(x) == <<x>>

RECURSIVE Flat(_)
\* Array.prototype.flat() on a sequence of sequences
Flat(ss) == IF ss = <<>> THEN <<>> ELSE Head(ss) \o Flat(Tail(ss))

RECURSIVE Dedupe(_)
\* [...new Set(xs)]: the distinct members in first-occurrence order
Dedupe(xs) ==
  IF xs = <<>> THEN <<>>
  ELSE LET init == Dedupe(SubSeq(xs, 1, Len(xs) - 1))
           last == xs[Len(xs)]
       IN  IF last \in Range(init) THEN init ELSE Append(init, last)

\* Object.assign({}, f, g): the keys of both, g's value where g has the key
ObjectAssign(f, g) ==
  [k \in (DOMAIN f) \cup (DOMAIN g) |-> IF k \in DOMAIN g THEN g[k] ELSE f[k]]

(***************************************************************************)
(* URL strings.  A string is modelled by the parts `new URL' reads: its    *)
(* scheme, its hostname (empty when the string has none) and its path.     *)
(***************************************************************************)
Href(scheme, host, path) == [scheme |-> scheme, host |-> host, path |-> path]

PageS == Href("https", "a.test", "/")
PageA == Href("https", "a.test", "/a")
PageB == Href("https", "a.test", "/b")
PageC == Href("https", "a.test", "/c")
PageX == Href("https", "b.test", "/terms")
BadLink == Href("http", "", "")
MailLink == Href("mailto", "", "me@a.test")

\* a page with more links than the documented limit of links per page
PageW == Href("https", "w.test", "/")
WidePaths == <<"/1", "/2", "/3", "/4", "/5", "/6">>
WideLinks == [i \in 1..Len(WidePaths) |-> Href("https", "w.test", WidePaths[i])]

\* href.startsWith('http')
StartsWithHttp(href) == href.scheme \in {"http", "https"}

\* new URL(s): throws on a string without a host
URLParse(s) ==
  IF s.host = "" THEN [ok |-> FALSE, hostname |-> ""]
  ELSE [ok |-> TRUE, hostname |-> s.host]

isValidUrl(urlString) == URLParse(urlString).ok

isSameDomain(baseUrl, targetUrl) ==
  LET base == URLParse(baseUrl)
      target == URLParse(targetUrl)
  IN  IF base.ok /\ target.ok THEN base.hostname = target.hostname ELSE FALSE

(***************************************************************************)
(* retry(): the operation is given by the outcome of each of its calls,    *)
(* outcomes[attempt + 1] being what the call of attempt `attempt' settles   *)
(* to.  The result tells how the returned promise settles and how many     *)
(* times the operation was called.                                         *)
(***************************************************************************)
Fulfilled(v) == [status |-> "fulfilled", value |-> v, reason |-> "none"]
Rejected(e) == [status |-> "rejected", value |-> <<>>, reason |-> e]

RECURSIVE retryLoop(_, _, _, _)
retryLoop(outcomes, maxRetries, attempt, lastError) ==
  IF attempt < maxRetries
  THEN LET r == outcomes[attempt + 1]
       IN  IF r.status = "fulfilled"
           THEN [settled |-> Fulfilled(r.value), attempts |-> attempt + 1]
           ELSE retryLoop(outcomes, maxRetries, attempt + 1, r.reason)
  ELSE [settled |-> Rejected(lastError), attempts |-> attempt]

retry(outcomes, maxRetries) == retryLoop(outcomes, maxRetries, 0, "undefined")

(***************************************************************************)
(* Documents.  A document is the sequence of its elements in document      *)
(* order; an element has a tag, the index of its parent element (0 for a   *)
(* child of the body) and its own text, a sequence of words and of " "     *)
(* (white space).  A string of text is such a sequence; <<>> is ''.        *)
(***************************************************************************)
El(tag, parent, text) == [tag |-> tag, parent |-> parent, text |-> text]

DocEmpty == <<>>
DocArticle ==
  << El("h1", 0, <<" ", "News", " ">>),
     El("article", 0, <<"Intro", " ", " ">>),
     El("p", 2, <<"Body">>),
     El("p", 0, <<"Body">>),
     El("p", 0, <<"Foot">>) >>
Docs == {DocEmpty, DocArticle}

RECURSIVE ancestors(_, _)
\* the parentElement chain of element i
ancestors(doc, i) ==
  IF doc[i].parent = 0 THEN {}
  ELSE {doc[i].parent} \cup ancestors(doc, doc[i].parent)

RECURSIVE textContent(_, _)
\* el.textContent: the element's own text, then its children's, in document order
textContent(doc, i) ==
  LET kids == {j \in 1..Len(doc) : doc[j].parent = i}
      kidText[k \in 0..Len(doc)] ==
        IF k = 0 THEN <<>>
        ELSE kidText[k - 1] \o (IF k \in kids THEN textContent(doc, k) ELSE <<>>)
  IN  doc[i].text \o kidText[Len(doc)]

RECURSIVE trimStart(_)
trimStart(t) == IF t # <<>> /\ Head(t) = " " THEN trimStart(Tail(t)) ELSE t

RECURSIVE trimEnd(_)
trimEnd(t) ==
  IF t # <<>> /\ t[Len(t)] = " " THEN trimEnd(SubSeq(t, 1, Len(t) - 1)) ELSE t

RECURSIVE collapseSpaces(_)
\* replace(/\s+/g, ' ')
collapseSpaces(t) ==
  IF Len(t) < 2 THEN t
  ELSE IF t[1] = " " /\ t[2] = " " THEN collapseSpaces(Tail(t))
  ELSE <<t[1]>> \o collapseSpaces(Tail(t))

\* el.textContent?.trim().replace(/\s+/g, ' ') || ''
normalizeText(t) == collapseSpaces(trimEnd(trimStart(t)))

\* the subsequence of the members of s that satisfy keep, a set of indices
SelectIdx(s, keep) ==
  LET F[k \in 0..Len(s)] ==
        IF k = 0 THEN <<>>
        ELSE IF k \in keep THEN Append(F[k - 1], s[k]) ELSE F[k - 1]
  IN  F[Len(s)]

\* els.filter(...): the elements matched by singleSelector that have no
\* ancestor matched by it
filteredEls(doc, singleSelector) ==
  LET els == {i \in 1..Len(doc) : doc[i].tag = singleSelector}
  IN  {i \in els : ancestors(doc, i) \cap els = {}}

\* page.$$eval(singleSelector, ...): the texts of the matched elements that
\* have no matched ancestor, empty texts dropped
evalSelector(doc, singleSelector) ==
  LET texts == [i \in 1..Len(doc) |-> normalizeText(textContent(doc, i))]
  IN  SelectIdx(texts, {i \in filteredEls(doc, singleSelector) : texts[i] # <<>>})

\* page.waitForSelector(singleSelector, {timeout}): rejects when no element
\* matches within the timeout
waitForSelector(doc, singleSelector) ==
  \E i \in 1..Len(doc) : doc[i].tag = singleSelector

\* one selector of a field: the wait, then the extraction
singleSelectorResult(doc, singleSelector) ==
  IF waitForSelector(doc, singleSelector)
  THEN Fulfilled(evalSelector(doc, singleSelector))
  ELSE Rejected("TimeoutError")

\* a selector option value: a string or an array of strings
Single(sel) == [isArray |-> FALSE, sels |-> <<sel>>]
Many(sels) == [isArray |-> TRUE, sels |-> sels]

\* the operation handed to retry: Promise.allSettled over the field's
\* selectors, the fulfilled ones merged and deduplicated
fieldOperation(doc, selector) ==
  LET selectors == selector.sels
      selectorResults ==
        [i \in 1..Len(selectors) |-> singleSelectorResult(doc, selectors[i])]
      allElements ==
        Flat([i \in 1..Len(selectors) |->
               IF selectorResults[i].status = "fulfilled"
               THEN selectorResults[i].value ELSE <<>>])
  IN  Fulfilled(Dedupe(allElements))

\* a field's value in data: a string, or an array of strings
StringValue(s) == [kind |-> "string", v |-> <<s>>]
ArrayValue(ss) == [kind |-> "array", v |-> ss]

\* the number of times retry calls the field's operation
fieldAttempts(doc, selector, retryCount) ==
  retry([a \in 1..retryCount |-> fieldOperation(doc, selector)],
        retryCount).attempts

\* the entry without the collapse of a one-element array
selectorPromise_NeverCollapses(doc, selector, retryCount) ==
  LET elements ==
        retry([a \in 1..retryCount |-> fieldOperation(doc, selector)], retryCount)
  IN  IF elements.settled.status = "fulfilled"
      THEN Fulfilled(ArrayValue(elements.settled.value))
      ELSE Fulfilled(StringValue(<<>>))

\* one entry of selectorPromises: the settled [key, value] promise
selectorPromise(doc, selector, retryCount) ==
  LET elements ==
        retry([a \in 1..retryCount |-> fieldOperation(doc, selector)], retryCount)
  IN  IF elements.settled.status = "fulfilled"
      THEN Fulfilled(IF Len(elements.settled.value) = 1
                     THEN StringValue(elements.settled.value[1])
                     ELSE ArrayValue(elements.settled.value))
      ELSE Fulfilled(StringValue(<<>>))

\* the forEach over the settled results: the page's data, or the error thrown
collectData(doc, selectors, retryCount, breakWhenFailed) ==
  LET results == [key \in DOMAIN selectors |->
                    selectorPromise(doc, selectors[key], retryCount)]
      rejected == {key \in DOMAIN selectors : results[key].status = "rejected"}
  IN  IF rejected # {} /\ breakWhenFailed
      THEN [ok |-> FALSE, data |-> <<>>, error |-> "Failed to extract"]
      ELSE [ok |-> TRUE,
            data |-> [key \in (DOMAIN selectors) \ rejected |-> results[key].value],
            error |-> "none"]

(***************************************************************************)
(* Options.  A predicate on URL strings is given by the set of strings it  *)
(* returns true on; an option holding `undefined' is NoPredicate.          *)
(***************************************************************************)
MAX_DEEPEST_DEPTH == 10

Predicate(trueOn) == [defined |-> TRUE, trueOn |-> trueOn]
NoPredicate == [defined |-> FALSE, trueOn |-> {}]

DefaultScrapingOptions ==
  [maxDepth |-> 0,
   selectors |-> [headings |-> Many(<<"h1", "h2", "h3", "h4", "h5">>),
                  paragraphs |-> Single("p"),
                  articles |-> Single("article"),
                  spans |-> Single("span"),
                  orderLists |-> Single("ol"),
                  lists |-> Single("ul")],
   excludeChildPage |-> Predicate({}),
   withConsole |-> TRUE,
   breakWhenFailed |-> FALSE,
   retryCount |-> 3,
   waitForSelectorTimeout |-> 12000,
   waitForPageLoadTimeout |-> 12000]

(***************************************************************************)
(* The calls the model makes: scraping(PageS, _options), _options any      *)
(* combination of the choices below (<<>> is an option left out).          *)
(***************************************************************************)
MaxDepthChoices ==
  {<<>>} \cup {[maxDepth |-> d] :
                d \in (1..MaxDepthTried) \cup {MAX_DEEPEST_DEPTH, MAX_DEEPEST_DEPTH + 1}}

BreakChoices == {<<>>, [breakWhenFailed |-> TRUE]}

\* the caller's predicates: url.includes('terms'), and one that is true of
\* every link but PageS
CallerPredicates == {{PageX}, {PageA, PageB, PageC, PageX, BadLink}}

ExcludeChoices ==
  {<<>>, [excludeChildPage |-> NoPredicate]}
    \cup {[excludeChildPage |-> Predicate(S)] : S \in CallerPredicates}

SelectorChoices ==
  {<<>>, [selectors |-> [title |-> Single("h1"),
                         description |-> Many(<<"article", "p">>),
                         links |-> Single("a")]]}

CallerOptions ==
  {ObjectAssign(ObjectAssign(d, b), ObjectAssign(e, s)) :
     d \in MaxDepthChoices, b \in BreakChoices,
     e \in ExcludeChoices, s \in SelectorChoices}

(***************************************************************************)
(* The web the browser serves.  Every navigation may fail; a page that     *)
(* loads has any document of Docs and one of the anchor lists of its URL   *)
(* (the href of each <a>, in document order).                              *)
(***************************************************************************)
PageTitles == {"Example Domain"}

AnchorsOf(u) ==
  CASE u = PageS -> {<<>>, <<PageA, PageB>>, <<PageS, PageB, PageA>>,
                     <<PageA, MailLink, PageA, PageX, BadLink>>}
    [] u = PageA -> {<<>>, <<PageB>>, <<PageS, PageC>>}
    [] u = PageB -> {<<>>, <<PageC>>, <<PageA, PageS>>}
    [] u = PageC -> {<<>>, <<PageS>>}
    [] u = PageW -> {WideLinks}
    [] u \in Range(WideLinks) -> {<<>>}
    [] OTHER -> {<<>>, <<PageA>>}

(***************************************************************************)
(* State.                                                                  *)
(***************************************************************************)
VARIABLES
  seedUrl,      \* scraping's url argument
  userOptions,  \* scraping's _options argument
  status,       \* of the scraping call: "idle", "running", "returned", "failed"
  stack,        \* the scrapeWebPage activations, the innermost last
  visitedUrls,  \* the Set shared by all activations of the call
  browsers,     \* the number of launched browsers not yet closed
  result,       \* Some(the ScrapingResult returned), or None
  error,        \* Some(the error the call failed with), or None
  loaded,       \* history: what every page loaded so far served and kept
  trace,        \* history: the calls, navigations and settlements so far
  rt            \* one call of retry taken on its own: its arguments and locals

crawlVars == <<seedUrl, userOptions, status, stack, visitedUrls, browsers,
               result, error, loaded, trace>>

vars == <<crawlVars, rt>>

\* no call of retry is under study
RetryIdle ==
  [pc |-> "none", maxRetries |-> 0, delay |-> 0, failures |-> 0, attempt |-> 0,
   calls |-> 0, sleeps |-> <<>>, lastError |-> "undefined",
   settled |-> Rejected("none")]

\* const options = Object.assign({}, DefaultScrapingOptions, _options)
options == ObjectAssign(DefaultScrapingOptions, userOptions)

\* an error thrown, with the URL of the page it arose on
Error(name, at) == [name |-> name, at |-> at]

\* a history entry: a call of scrapeWebPage ("call"), a page.goto ("goto"),
\* or an activation settling ("return", "throw"); parent is the URL of the
\* calling activation (None for the seed)
Event(ev, u, depth, parent) ==
  [ev |-> ev, url |-> u, depth |-> depth, parent |-> parent]

\* the result returned for a URL already in visitedUrls
AlreadyVisited(u) ==
  [url |-> u, title |-> "Already visited", data |-> <<>>, childPages |-> None]

Frame(u, depth) ==
  [url |-> u, currentDepth |-> depth, phase |-> "launch",
   title |-> "", data |-> <<>>, uniqueLinks |-> <<>>, validLinks |-> <<>>,
   idx |-> 1, childPages |-> <<>>, settle |-> Rejected(Error("none", None))]

Top == stack[Len(stack)]
\* the URL of the activation that called the innermost one
Caller == IF Len(stack) > 1 THEN Some(stack[Len(stack) - 1].url) ELSE None
SetTop(f) == [stack EXCEPT ![Len(stack)] = f]

Init ==
  /\ seedUrl = PageS
  /\ userOptions \in CallerOptions
  /\ status = "idle"
  /\ stack = <<>>
  /\ visitedUrls = {}
  /\ browsers = 0
  /\ result = None
  /\ error = None
  /\ loaded = <<>>
  /\ trace = <<>>
  /\ rt = RetryIdle

(***************************************************************************)
(* scrapeWebPage, from its call to its first await: the visited check.     *)
(* A call on a visited URL returns the placeholder at once; any other call *)
(* marks the URL visited and starts an activation that launches a browser. *)
(***************************************************************************)
\* EnterScrape without the visited check
EnterScrape_NoVisitedCheck(u, depth, visited) ==
  [returned |-> None, pushed |-> <<Frame(u, depth)>>, visited |-> visited \cup {u}]

EnterScrape(u, depth, visited) ==
  IF u \in visited
  THEN [returned |-> Some(AlreadyVisited(u)), pushed |-> <<>>, visited |-> visited]
  ELSE [returned |-> None, pushed |-> <<Frame(u, depth)>>,
        visited |-> visited \cup {u}]

\* the check scraping makes with the ceiling one too high
exceedsMaxDepth_OffByOne(opts) == opts.maxDepth > MAX_DEEPEST_DEPTH + 1

\* options.maxDepth > MAX_DEEPEST_DEPTH, the check scraping makes
exceedsMaxDepth(opts) == opts.maxDepth > MAX_DEEPEST_DEPTH

\* the guard of the child traversal with <= for <
belowMaxDepth_OffByOne(currentDepth, opts) == currentDepth <= opts.maxDepth

\* currentDepth < options.maxDepth, the guard of the child traversal
belowMaxDepth(currentDepth, opts) == currentDepth < opts.maxDepth

\* the loop over validLinks running from the last link to the first
nextLink_Reversed(f) == f.validLinks[Len(f.validLinks) - f.idx + 1]

\* the link the loop over validLinks is at
nextLink(f) == f.validLinks[f.idx]

\* the filter without its test of the visited set
validLinksOf_NoVisitedTest(u, uniqueLinks, visited, opts) ==
  LET keep == {i \in 1..Len(uniqueLinks) :
                 /\ isValidUrl(uniqueLinks[i])
                 /\ IF opts.excludeChildPage.defined
                    THEN uniqueLinks[i] \in opts.excludeChildPage.trueOn
                    ELSE isSameDomain(u, uniqueLinks[i])}
  IN  SelectIdx(uniqueLinks, keep)

\* the filter of the links to traverse
validLinksOf(u, uniqueLinks, visited, opts) ==
  LET keep == {i \in 1..Len(uniqueLinks) :
                 /\ isValidUrl(uniqueLinks[i])
                 /\ uniqueLinks[i] \notin visited
                 /\ IF opts.excludeChildPage.defined
                    THEN uniqueLinks[i] \in opts.excludeChildPage.trueOn
                    ELSE isSameDomain(u, uniqueLinks[i])}
  IN  SelectIdx(uniqueLinks, keep)

\* the links of the page: the anchors' hrefs that start with http, deduplicated
uniqueLinksOf(anchors) ==
  Dedupe(SelectIdx(anchors, {i \in 1..Len(anchors) :
                               anchors[i] # <<>> /\ StartsWithHttp(anchors[i])}))

\* the return value with childPages always the array
ScrapingResult_AlwaysArray(f) ==
  [url |-> f.url, title |-> f.title, data |-> f.data,
   childPages |-> Some(f.childPages)]

\* the value returned after the loop over the children
ScrapingResult(f) ==
  [url |-> f.url, title |-> f.title, data |-> f.data,
   childPages |-> IF Len(f.childPages) > 0 THEN Some(f.childPages) ELSE None]

\* AfterChild with the catch block never rethrowing
AfterChild_NoRethrow(parent, settled, opts) ==
  IF settled.status = "fulfilled"
  THEN [parent EXCEPT !.childPages = Append(@, settled.value), !.idx = @ + 1]
  ELSE [parent EXCEPT !.idx = @ + 1]

\* a loop body that never moves on to the next link
AfterChild_NoAdvance(parent, settled, opts) ==
  IF settled.status = "fulfilled"
  THEN [parent EXCEPT !.childPages = Append(@, settled.value)]
  ELSE IF opts.breakWhenFailed
       THEN [parent EXCEPT !.phase = "finally", !.settle = settled]
       ELSE parent

\* the parent's loop body once the awaited child has settled
AfterChild(parent, settled, opts) ==
  IF settled.status = "fulfilled"
  THEN [parent EXCEPT !.childPages = Append(@, settled.value), !.idx = @ + 1]
  ELSE IF opts.breakWhenFailed
       THEN [parent EXCEPT !.phase = "finally", !.settle = settled]
       ELSE [parent EXCEPT !.idx = @ + 1]

(***************************************************************************)
(* Actions.                                                                *)
(***************************************************************************)
\* scraping(url, _options): the depth check, then the call of scrapeWebPage
\* on the seed with a fresh visited set
scraping ==
  /\ status = "idle"
  /\ IF exceedsMaxDepth(options)
     THEN /\ status' = "failed"
          /\ error' = Some(Error("Max depth exceeds the maximum depth", None))
          /\ UNCHANGED <<stack, visitedUrls, result, trace>>
     ELSE LET e == EnterScrape(seedUrl, 0, {})
          IN  /\ trace' = Append(trace, Event("call", seedUrl, 0, None))
              /\ visitedUrls' = e.visited
              /\ stack' = e.pushed
              /\ IF e.returned # None
                 THEN status' = "returned" /\ result' = e.returned
                 ELSE status' = "running" /\ UNCHANGED result
              /\ UNCHANGED error
  /\ UNCHANGED <<rt, seedUrl, userOptions, browsers, loaded>>

\* puppeteer.launch() and browser.newPage() have resolved: page.goto is called
LaunchBrowser ==
  /\ status = "running"
  /\ Top.phase = "launch"
  /\ browsers' = browsers + 1
  /\ stack' = SetTop([Top EXCEPT !.phase = "goto"])
  /\ trace' = Append(trace, Event("goto", Top.url, Top.currentDepth, Caller))
  /\ UNCHANGED <<rt, seedUrl, userOptions, status, visitedUrls, result, error, loaded>>

\* page.goto rejects (navigation error or timeout): the finally block is next
NavigationFails ==
  /\ status = "running"
  /\ Top.phase = "goto"
  /\ stack' = SetTop([Top EXCEPT !.phase = "finally",
                                 !.settle = Rejected(Error("NavigationError",
                                                           Some(Top.url)))])
  /\ UNCHANGED <<rt, seedUrl, userOptions, status, visitedUrls, browsers,
                 result, error, loaded, trace>>

\* page.goto resolves: title, the fields' data, the links, and the filter of
\* the links to traverse
ScrapePage ==
  /\ status = "running"
  /\ Top.phase = "goto"
  /\ \E title \in PageTitles, doc \in Docs, anchors \in AnchorsOf(Top.url) :
       LET collected == collectData(doc, options.selectors, options.retryCount,
                                    options.breakWhenFailed)
           uniqueLinks == uniqueLinksOf(anchors)
           validLinks ==
             IF belowMaxDepth(Top.currentDepth, options)
             THEN validLinksOf(Top.url, uniqueLinks, visitedUrls, options)
             ELSE <<>>
       IN  IF collected.ok
           THEN /\ stack' = SetTop([Top EXCEPT !.phase = "children",
                                               !.title = title,
                                               !.data = collected.data,
                                               !.uniqueLinks = uniqueLinks,
                                               !.validLinks = validLinks])
                /\ loaded' = ObjectAssign(loaded,
                       [u \in {Top.url} |-> [doc |-> doc,
                                             uniqueLinks |-> uniqueLinks,
                                             validLinks |-> validLinks,
                                             visited |-> visitedUrls]])
           ELSE /\ stack' = SetTop([Top EXCEPT !.phase = "finally",
                                       !.settle = Rejected(Error(collected.error,
                                                                 Some(Top.url)))])
                /\ UNCHANGED loaded
  /\ UNCHANGED <<rt, seedUrl, userOptions, status, visitedUrls, browsers,
                 result, error, trace>>

\* one turn of the loop over validLinks: the call of scrapeWebPage on a link
ScrapeChild ==
  /\ status = "running"
  /\ Top.phase = "children"
  /\ Top.idx <= Len(Top.validLinks)
  /\ LET link == nextLink(Top)
         e == EnterScrape(link, Top.currentDepth + 1, visitedUrls)
     IN  /\ trace' = Append(trace, Event("call", link, Top.currentDepth + 1,
                                         Some(Top.url)))
         /\ visitedUrls' = e.visited
         /\ IF e.returned # None
            THEN stack' = SetTop(AfterChild(Top, Fulfilled(e.returned[1]), options))
            ELSE stack' = stack \o e.pushed
  /\ UNCHANGED <<rt, seedUrl, userOptions, status, browsers, result, error, loaded>>

\* the loop is over: the return statement, with the finally block next
ReturnResult ==
  /\ status = "running"
  /\ Top.phase = "children"
  /\ Top.idx > Len(Top.validLinks)
  /\ stack' = SetTop([Top EXCEPT !.phase = "finally",
                                 !.settle = Fulfilled(ScrapingResult(Top))])
  /\ UNCHANGED <<rt, seedUrl, userOptions, status, visitedUrls, browsers,
                 result, error, loaded, trace>>

\* a close that leaves the browser open
browserClose_Noop(n) == n

\* await browser.close(): one open browser fewer
browserClose(n) == n - 1

\* a finally block that runs only when the try block returned
finallyRuns_OnReturnOnly(settled) == settled.status = "fulfilled"

\* try {...} finally {...}: the finally block runs however the try block
\* settled
finallyRuns(settled) == TRUE

\* finally: browser.close(); the activation settles and its caller resumes
CloseBrowser ==
  /\ status = "running"
  /\ Top.phase = "finally"
  /\ browsers' = IF finallyRuns(Top.settle) THEN browserClose(browsers)
                 ELSE browsers
  /\ trace' = Append(trace, Event(IF Top.settle.status = "fulfilled"
                                  THEN "return" ELSE "throw",
                                  Top.url, Top.currentDepth, Caller))
  /\ IF Len(stack) = 1
     THEN /\ stack' = <<>>
          /\ IF Top.settle.status = "fulfilled"
             THEN status' = "returned" /\ result' = Some(Top.settle.value)
                  /\ UNCHANGED error
             ELSE status' = "failed" /\ error' = Some(Top.settle.reason)
                  /\ UNCHANGED result
     ELSE /\ stack' = [SubSeq(stack, 1, Len(stack) - 1) EXCEPT
                         ![Len(stack) - 1] = AfterChild(@, Top.settle, options)]
          /\ UNCHANGED <<status, result, error>>
  /\ UNCHANGED <<rt, seedUrl, userOptions, visitedUrls, loaded>>

Next ==
  \/ scraping
  \/ LaunchBrowser
  \/ NavigationFails
  \/ ScrapePage
  \/ ScrapeChild
  \/ ReturnResult
  \/ CloseBrowser

Spec == Init /\ [][Next]_vars

\* scraping(PageW, {maxDepth: 1, excludeChildPage: undefined, ...})
WideOptions ==
  {ObjectAssign([maxDepth |-> 1, excludeChildPage |-> NoPredicate],
                ObjectAssign(b, s)) :
     b \in BreakChoices, s \in SelectorChoices}

InitWide ==
  /\ seedUrl = PageW
  /\ userOptions \in WideOptions
  /\ status = "idle"
  /\ stack = <<>>
  /\ visitedUrls = {}
  /\ browsers = 0
  /\ result = None
  /\ error = None
  /\ loaded = <<>>
  /\ trace = <<>>
  /\ rt = RetryIdle

SpecWide == InitWide /\ [][Next]_vars

\* every await settles: an operation that can complete or fail does so
SpecFair == Init /\ [][Next]_vars /\ WF_vars(Next)

(***************************************************************************)
(* retry(operation, maxRetries, delay) step by step.  The operation is     *)
(* one that rejects on its first rt.failures calls and fulfils afterwards. *)
(* A sleep is kept as the exact fraction num / den of a millisecond count. *)
(***************************************************************************)
DefaultDelay == 1000

RECURSIVE Pow2(_)
\* Math.pow(2, n)
Pow2(n) == IF n = 0 THEN 1 ELSE 2 * Pow2(n - 1)

\* the backoff with the jitter over the whole range instead of its upper half
backoffDelay_FullJitter(delay, attempt, n) ==
  [attempt |-> attempt, num |-> delay * Pow2(attempt) * 2 * n,
   den |-> 2 * RandomSteps]

\* delay * Math.pow(2, attempt) * (0.5 + Math.random() * 0.5), with
\* Math.random() = n / RandomSteps
backoffDelay(delay, attempt, n) ==
  [attempt |-> attempt, num |-> delay * Pow2(attempt) * (RandomSteps + n),
   den |-> 2 * RandomSteps]

\* what the operation settles to on its call number c (from 1)
operationOutcome(c, failures) ==
  IF c <= failures THEN Rejected("OperationError")
  ELSE Fulfilled("value")

InitRetry ==
  /\ seedUrl = PageS
  /\ userOptions = <<>>
  /\ status = "idle"
  /\ stack = <<>>
  /\ visitedUrls = {}
  /\ browsers = 0
  /\ result = None
  /\ error = None
  /\ loaded = <<>>
  /\ trace = <<>>
  /\ \E maxRetries \in 0..MaxRetriesTried, delay \in {1, DefaultDelay},
        failures \in 0..MaxRetriesTried :
       rt = [RetryIdle EXCEPT !.pc = "loop", !.maxRetries = maxRetries,
                              !.delay = delay, !.failures = failures]

\* one turn of the for loop: await operation(), and the catch block up to
\* its await
RetryAttempt ==
  /\ rt.pc = "loop"
  /\ rt.attempt < rt.maxRetries
  /\ LET r == operationOutcome(rt.calls + 1, rt.failures)
     IN  rt' = IF r.status = "fulfilled"
               THEN [rt EXCEPT !.calls = @ + 1, !.pc = "done", !.settled = r]
               ELSE IF rt.attempt < rt.maxRetries - 1
                    THEN [rt EXCEPT !.calls = @ + 1, !.lastError = r.reason,
                                    !.pc = "sleep"]
                    ELSE [rt EXCEPT !.calls = @ + 1, !.lastError = r.reason,
                                    !.attempt = @ + 1]
  /\ UNCHANGED crawlVars

\* the setTimeout of the catch block has fired: the next turn of the loop
RetrySleep ==
  /\ rt.pc = "sleep"
  /\ \E n \in 0..(RandomSteps - 1) :
       rt' = [rt EXCEPT !.sleeps = Append(@, backoffDelay(rt.delay, rt.attempt, n)),
                        !.attempt = @ + 1, !.pc = "loop"]
  /\ UNCHANGED crawlVars

\* the loop is over: throw lastError
RetryThrow ==
  /\ rt.pc = "loop"
  /\ rt.attempt >= rt.maxRetries
  /\ rt' = [rt EXCEPT !.pc = "done", !.settled = Rejected(rt.lastError)]
  /\ UNCHANGED crawlVars

NextRetry ==
  \/ RetryAttempt
  \/ RetrySleep
  \/ RetryThrow

SpecRetry == InitRetry /\ [][NextRetry]_vars

(***************************************************************************)
(* Properties.                                                             *)
(***************************************************************************)
Calls == {i \in 1..Len(trace) : trace[i].ev = "call"}
Gotos == {i \in 1..Len(trace) : trace[i].ev = "goto"}
Throws == {i \in 1..Len(trace) : trace[i].ev = "throw"}

\* the URLs page.goto was called on
Navigated == {trace[i].url : i \in Gotos}

\* the call at trace index i is on a URL that an earlier call was on
RepeatedCall(i) == \E k \in Calls : k < i /\ trace[k].url = trace[i].url

\* C1: no URL is navigated twice: every activation's URL is in visitedUrls
\* before its page.goto, every page.goto follows the first call on its URL,
\* and a call on a visited URL launches no browser, navigates nothing and
\* returns the "Already visited" placeholder to its caller.
C1_NoUrlNavigatedTwice ==
  /\ \A i \in Gotos, j \in Gotos : i # j => trace[i].url # trace[j].url
  /\ \A k \in 1..Len(stack) : stack[k].url \in visitedUrls
  /\ \A j \in Gotos : \E i \in Calls : i < j /\ trace[i].url = trace[j].url
  /\ Cardinality(Gotos) + (IF stack # <<>> /\ Top.phase = "launch" THEN 1 ELSE 0)
       = Cardinality({trace[i].url : i \in Calls})
  /\ (trace # <<>> /\ Len(trace) \in Calls /\ RepeatedCall(Len(trace)))
       => /\ stack # <<>>
          /\ Top.phase \in {"children", "finally"}
          /\ Top.childPages # <<>>
          /\ Top.childPages[Len(Top.childPages)]
               = AlreadyVisited(trace[Len(trace)].url)

\* a call has returned after scrapeWebPage was called twice on one URL
C1_Witness ==
  /\ status = "returned"
  /\ \E i \in Calls : RepeatedCall(i)

\* the conditions of the child-link filter that do not depend on the traversal
PassesFilter(parentUrl, link) ==
  /\ isValidUrl(link)
  /\ IF options.excludeChildPage.defined
     THEN link \in options.excludeChildPage.trueOn
     ELSE isSameDomain(parentUrl, link)

RECURSIVE ReachableWithin(_)
\* the URLs a path of at most d filter-passing links leads to from the seed
ReachableWithin(d) ==
  IF d = 0 THEN {seedUrl}
  ELSE LET near == ReachableWithin(d - 1)
       IN  near \cup {l \in UNION {Range(loaded[p].uniqueLinks) :
                                     p \in near \cap DOMAIN loaded} :
                        \E p \in near \cap DOMAIN loaded :
                          /\ l \in Range(loaded[p].uniqueLinks)
                          /\ PassesFilter(p, l)}

\* C2: when the call returns and no navigation failed, as many distinct URLs
\* were navigated as are reachable from the seed within maxDepth
\* filter-passing links.
C2_NavigatedEqualsReachable ==
  (status = "returned" /\ Throws = {})
    => Cardinality(Navigated) = Cardinality(ReachableWithin(options.maxDepth))

RECURSIVE TreeWithinDepth(_, _, _)
\* no node of the result tree lies deeper than maxDepth, and a node at
\* maxDepth has no childPages
TreeWithinDepth(node, depth, maxDepth) ==
  /\ depth <= maxDepth
  /\ depth = maxDepth => node.childPages = None
  /\ node.childPages # None =>
       \A k \in 1..Len(node.childPages[1]) :
         TreeWithinDepth(node.childPages[1][k], depth + 1, maxDepth)

\* C3: the seed is scraped at depth 0, a child one deeper than its parent and
\* nothing deeper than maxDepth; a page at depth maxDepth keeps no link to
\* traverse, calls scrapeWebPage on none and returns no childPages.
C3_DepthNeverExceedsMax ==
  /\ \A k \in 1..Len(stack) :
       /\ stack[k].currentDepth = k - 1
       /\ stack[k].currentDepth <= options.maxDepth
       /\ stack[k].currentDepth = options.maxDepth =>
            /\ stack[k].validLinks = <<>>
            /\ stack[k].childPages = <<>>
            /\ k = Len(stack)
            /\ stack[k].settle.status = "fulfilled" =>
                 stack[k].settle.value.childPages = None
  /\ \A i \in 1..Len(trace) : trace[i].depth <= options.maxDepth
  /\ \A i \in Calls :
       IF trace[i].parent = None THEN trace[i].depth = 0
       ELSE \E j \in Gotos : /\ j < i
                             /\ trace[j].url = trace[i].parent[1]
                             /\ trace[i].depth = trace[j].depth + 1
  /\ result # None => TreeWithinDepth(result[1], 0, options.maxDepth)

\* a call with maxDepth >= 1 has returned after loading, at depth maxDepth, a
\* page with a link that passes the filter and was not visited
C3_Witness ==
  /\ status = "returned"
  /\ options.maxDepth >= 1
  /\ \E i \in Gotos :
       /\ trace[i].depth = options.maxDepth
       /\ trace[i].url \in DOMAIN loaded
       /\ \E l \in Range(loaded[trace[i].url].uniqueLinks) :
            /\ PassesFilter(trace[i].url, l)
            /\ l \notin loaded[trace[i].url].visited

\* C4: a link the excludeChildPage predicate returns true on is never the
\* argument of a child call of scrapeWebPage.
C4_ExcludedLinkNeverScraped ==
  options.excludeChildPage.defined =>
    \A i \in Calls :
      trace[i].parent # None => trace[i].url \notin options.excludeChildPage.trueOn

\* the depth page.goto was called at on URL u
DepthOf(u) == trace[CHOOSE i \in Gotos : trace[i].url = u].depth

\* C5: when the caller gives no excludeChildPage and maxDepth > 0, the links
\* a page above maxDepth keeps for traversal are exactly its valid,
\* not-yet-visited links on the page's own hostname, in order.
C5_DefaultsFollowSameHost ==
  ("excludeChildPage" \notin DOMAIN userOptions /\ options.maxDepth > 0) =>
    \A u \in DOMAIN loaded :
      DepthOf(u) < options.maxDepth =>
        loaded[u].validLinks =
          SelectIdx(loaded[u].uniqueLinks,
                    {i \in 1..Len(loaded[u].uniqueLinks) :
                       /\ isValidUrl(loaded[u].uniqueLinks[i])
                       /\ loaded[u].uniqueLinks[i] \notin loaded[u].visited
                       /\ isSameDomain(u, loaded[u].uniqueLinks[i])})

\* every wait for a selector of field key times out on document doc
NeverResolves(doc, key) ==
  \A n \in 1..Len(options.selectors[key].sels) :
    ~waitForSelector(doc, options.selectors[key].sels[n])

\* the activations whose page has loaded
LoadedFrames ==
  {k \in 1..Len(stack) :
     \/ stack[k].phase = "children"
     \/ stack[k].phase = "finally" /\ stack[k].url \in DOMAIN loaded}

\* C6: with breakWhenFailed = false, a page with a field whose selectors never
\* resolve still yields its data with every field in it, and that field's
\* value is the empty string.
C6_FailedFieldIsEmptyString ==
  ~options.breakWhenFailed =>
    \A k \in LoadedFrames :
      /\ DOMAIN stack[k].data = DOMAIN options.selectors
      /\ \A key \in DOMAIN options.selectors :
           NeverResolves(loaded[stack[k].url].doc, key)
             => stack[k].data[key] = StringValue(<<>>)

\* C7: with breakWhenFailed = true, a call that loaded a page with a field
\* whose selectors never resolve does not return a result.
C7_FailedFieldFailsCall ==
  (/\ options.breakWhenFailed
   /\ \E u \in DOMAIN loaded, key \in DOMAIN options.selectors :
        NeverResolves(loaded[u].doc, key))
    => status # "returned"

\* the URLs scrapeWebPage was called on by the activation of URL p, in order
CallsFrom(p) ==
  SelectIdx([i \in 1..Len(trace) |-> trace[i].url],
            {i \in Calls : trace[i].parent = Some(p)})

\* the URLs of a sequence of results
UrlsOf(pages) == [k \in 1..Len(pages) |-> pages[k].url]

\* the call of the activation of URL p on link l threw
ChildThrew(p, l) ==
  \E t \in Throws : trace[t].url = l /\ trace[t].parent = Some(p)

\* the index in trace of the first error thrown
FirstThrow == CHOOSE t \in Throws : \A o \in Throws : t <= o

\* C8: with breakWhenFailed = true the first error thrown by an activation is
\* rethrown by each ancestor in turn, nothing is called or navigated after it
\* and the call fails with that error; with breakWhenFailed = false an
\* activation throws only when its own navigation failed, it calls
\* scrapeWebPage on all of validLinks in order, and its childPages are the
\* links whose call did not throw, in order.
C8_ChildFailurePolicy ==
  /\ (options.breakWhenFailed /\ Throws # {}) =>
       /\ \A j \in 1..Len(trace) :
            j > FirstThrow =>
              /\ trace[j].ev = "throw"
              /\ trace[j].depth = trace[j - 1].depth - 1
              /\ Some(trace[j].url) = trace[j - 1].parent
       /\ status = "running" =>
            /\ Top.phase = "finally"
            /\ Top.settle = Rejected(Error("NavigationError",
                                           Some(trace[FirstThrow].url)))
       /\ status # "returned"
       /\ status = "failed" =>
            error = Some(Error("NavigationError", Some(trace[FirstThrow].url)))
  /\ ~options.breakWhenFailed =>
       \A k \in 1..Len(stack) :
         /\ (stack[k].phase = "finally" /\ stack[k].settle.status = "rejected")
              => stack[k].url \notin DOMAIN loaded
         /\ stack[k].phase = "children" =>
              CallsFrom(stack[k].url)
                = SubSeq(stack[k].validLinks, 1,
                         IF k = Len(stack) THEN stack[k].idx - 1 ELSE stack[k].idx)
         /\ (stack[k].phase = "finally" /\ stack[k].settle.status = "fulfilled") =>
              /\ CallsFrom(stack[k].url) = stack[k].validLinks
              /\ UrlsOf(stack[k].childPages)
                   = SelectIdx(stack[k].validLinks,
                               {i \in 1..Len(stack[k].validLinks) :
                                  ~ChildThrew(stack[k].url, stack[k].validLinks[i])})
              /\ stack[k].settle.value.childPages
                   = (IF stack[k].childPages = <<>> THEN None
                      ELSE Some(stack[k].childPages))

\* with breakWhenFailed = true, a page two levels below the seed failed to
\* load and the call has failed
C8_Witness ==
  /\ options.breakWhenFailed
  /\ status = "failed"
  /\ Throws # {}
  /\ trace[FirstThrow].depth >= 2

\* with breakWhenFailed = false, a child failed to load, a later sibling was
\* scraped and the call has returned
C8_WitnessContinue ==
  /\ ~options.breakWhenFailed
  /\ status = "returned"
  /\ \E t \in Throws, i \in Calls :
       /\ t < i
       /\ trace[t].parent # None
       /\ trace[i].parent = trace[t].parent
       /\ \E g \in Gotos : g > i /\ trace[g].url = trace[i].url

\* C9: a call with maxDepth above 10 fails with the depth error and does
\* nothing else: no activation, no browser, no navigation, no URL visited.
C9_DepthCeilingFailsFast ==
  options.maxDepth > MAX_DEEPEST_DEPTH =>
    /\ status \in {"idle", "failed"}
    /\ status = "failed" =>
         error = Some(Error("Max depth exceeds the maximum depth", None))
    /\ stack = <<>>
    /\ browsers = 0
    /\ visitedUrls = {}
    /\ trace = <<>>
    /\ loaded = <<>>
    /\ result = None

\* a call with maxDepth = 11 has failed
C9_Witness ==
  /\ options.maxDepth > MAX_DEEPEST_DEPTH
  /\ status = "failed"

Settles == {i \in 1..Len(trace) : trace[i].ev \in {"return", "throw"}}

\* C10: the children of a page are scraped one at a time in the order of
\* validLinks: a call that started an activation is followed by no call at
\* its depth or above until that activation has settled, everything between
\* the call and the settlement lies in its subtree, the calls a page makes are
\* a prefix of its validLinks, and childPages holds the results of the calls
\* that did not throw, in call order.
C10_ChildrenSequentialInOrder ==
  /\ \A i \in Calls :
       ~RepeatedCall(i) =>
         \A j \in 1..Len(trace) :
           (/\ j > i
            /\ trace[j].depth <= trace[i].depth
            /\ \/ trace[j].ev = "call"
               \/ trace[j].ev = "goto" /\ trace[j].url # trace[i].url) =>
             \E k \in Settles :
               /\ i < k /\ k < j
               /\ trace[k].url = trace[i].url
               /\ \A m \in (i + 1)..(k - 1) : trace[m].depth >= trace[i].depth
  /\ \A p \in DOMAIN loaded :
       /\ Len(CallsFrom(p)) <= Len(loaded[p].validLinks)
       /\ CallsFrom(p) = SubSeq(loaded[p].validLinks, 1, Len(CallsFrom(p)))
  /\ \A k \in 1..Len(stack) :
       LET called == CallsFrom(stack[k].url)
       IN  /\ UrlsOf(stack[k].childPages)
                = SelectIdx(called,
                            {i \in 1..Len(called) :
                               /\ ~ChildThrew(stack[k].url, called[i])
                               /\ ~(k < Len(stack) /\ i = Len(called))})
           /\ (stack[k].phase = "finally" /\ stack[k].settle.status = "fulfilled") =>
                stack[k].settle.value.childPages
                  = (IF stack[k].childPages = <<>> THEN None
                     ELSE Some(stack[k].childPages))

\* the call has returned two children of the seed, the first of which scraped
\* a child of its own before the second was called
C10_Witness ==
  /\ status = "returned"
  /\ result[1].childPages # None
  /\ Len(result[1].childPages[1]) >= 2
  /\ \E i \in Calls, m \in Calls, j \in Calls :
       /\ i < m /\ m < j
       /\ trace[i].parent = Some(seedUrl)
       /\ trace[j].parent = Some(seedUrl)
       /\ trace[m].parent = Some(trace[i].url)
       /\ ~RepeatedCall(m)
       /\ ~RepeatedCall(j)

RECURSIVE NoEmptyChildPages(_)
\* no node of the result tree has an empty childPages array
NoEmptyChildPages(node) ==
  /\ node.childPages # Some(<<>>)
  /\ node.childPages # None =>
       \A k \in 1..Len(node.childPages[1]) :
         NoEmptyChildPages(node.childPages[1][k])

\* C11: a page none of whose child calls produced a result (it made none, or
\* each threw) returns no childPages, and no node of any returned result has
\* an empty childPages array.
C11_ChildPagesAbsentWhenEmpty ==
  /\ \A k \in 1..Len(stack) :
       (stack[k].phase = "finally" /\ stack[k].settle.status = "fulfilled") =>
         /\ NoEmptyChildPages(stack[k].settle.value)
         /\ (\A l \in Range(CallsFrom(stack[k].url)) : ChildThrew(stack[k].url, l))
              => stack[k].settle.value.childPages = None
  /\ result # None => NoEmptyChildPages(result[1])

\* with breakWhenFailed = false the seed called scrapeWebPage on a link, every
\* such call threw, and the call has returned a result without childPages
C11_Witness ==
  /\ status = "returned"
  /\ CallsFrom(seedUrl) # <<>>
  /\ \A l \in Range(CallsFrom(seedUrl)) : ChildThrew(seedUrl, l)
  /\ result[1].childPages = None

\* C12: retry called with maxRetries >= 1 on an operation that fails k <
\* maxRetries times and then succeeds calls it k + 1 times, returns its value
\* and sleeps k times, the sleep after failed attempt i lasting between
\* delay * 2^i * 0.5 and delay * 2^i.
C12_RetryCallsAndSleeps ==
  (rt.pc = "done" /\ rt.maxRetries >= 1 /\ rt.failures < rt.maxRetries) =>
    /\ rt.calls = rt.failures + 1
    /\ rt.settled = Fulfilled("value")
    /\ Len(rt.sleeps) = rt.failures
    /\ \A i \in 1..Len(rt.sleeps) :
         /\ rt.sleeps[i].attempt = i - 1
         /\ 2 * rt.sleeps[i].num >= rt.delay * Pow2(i - 1) * rt.sleeps[i].den
         /\ rt.sleeps[i].num <= rt.delay * Pow2(i - 1) * rt.sleeps[i].den

\* retry with maxRetries = 3 has returned after two failed attempts
C12_Witness ==
  /\ rt.pc = "done"
  /\ rt.maxRetries = 3
  /\ rt.failures = 2
  /\ rt.settled.status = "fulfilled"
  /\ Len(rt.sleeps) = 2

\* the elements a field's selectors match, and those whose text the field's
\* extraction takes
matchedEls(doc, selector) ==
  {i \in 1..Len(doc) : doc[i].tag \in Range(selector.sels)}

extractedEls(doc, selector) ==
  {i \in 1..Len(doc) :
     /\ \E n \in 1..Len(selector.sels) : i \in filteredEls(doc, selector.sels[n])
     /\ normalizeText(textContent(doc, i)) # <<>>}

\* C13: when an element and one of its ancestors both match selectors of a
\* field, the same selector or two different ones, the element is not
\* extracted on its own: the ancestor's text is the one entry for the pair.
C13_NestedMatchExtractedOnce ==
  \A k \in LoadedFrames :
    \A key \in DOMAIN options.selectors :
      LET doc == loaded[stack[k].url].doc
          selector == options.selectors[key]
      IN  \A B \in matchedEls(doc, selector) :
            ancestors(doc, B) \cap matchedEls(doc, selector) # {}
              => B \notin extractedEls(doc, selector)

\* the texts of a field's selectors one after the other, before deduplication
mergedTexts(doc, selector) ==
  Flat([n \in 1..Len(selector.sels) |->
         IF waitForSelector(doc, selector.sels[n])
         THEN evalSelector(doc, selector.sels[n]) ELSE <<>>])

\* the place of the first occurrence of x in the sequence s
firstIndex(s, x) == CHOOSE i \in 1..Len(s) : s[i] = x /\ \A j \in 1..(i - 1) : s[j] # x

\* C14: a field's value is a bare string exactly when one distinct non-empty
\* text survives the merge over the field's selectors; otherwise it is the
\* sequence of the distinct texts in the order of their first occurrence.
C14_ArityCollapse ==
  \A k \in LoadedFrames :
    \A key \in DOMAIN stack[k].data :
      LET doc == loaded[stack[k].url].doc
          merged == mergedTexts(doc, options.selectors[key])
          value == stack[k].data[key]
      IN  /\ value.kind = "string" <=> Cardinality(Range(merged)) = 1
          /\ value.kind = "string" => Range(value.v) = Range(merged)
          /\ value.kind = "array" =>
               /\ Range(value.v) = Range(merged)
               /\ Len(value.v) = Cardinality(Range(merged))
               /\ \A i, j \in 1..Len(value.v) :
                    i < j => firstIndex(merged, value.v[i]) < firstIndex(merged, value.v[j])

\* a page whose fields show the three cases: one text, none, and several with
\* a repeated text among them
C14_Witness ==
  \E k \in LoadedFrames :
    \E one, zero, many \in DOMAIN stack[k].data :
      /\ stack[k].data[one].kind = "string"
      /\ stack[k].data[zero] = ArrayValue(<<>>)
      /\ stack[k].data[many].kind = "array"
      /\ Len(stack[k].data[many].v) >= 2
      /\ Len(mergedTexts(loaded[stack[k].url].doc, options.selectors[many]))
           > Len(stack[k].data[many].v)

\* C16: a field one of whose selectors times out has its extraction attempted
\* retryCount times before it is given up.
C16_TimedOutFieldIsRetried ==
  \A k \in LoadedFrames :
    \A key \in DOMAIN options.selectors :
      LET doc == loaded[stack[k].url].doc
          selector == options.selectors[key]
      IN  (\E n \in 1..Len(selector.sels) : ~waitForSelector(doc, selector.sels[n]))
            => fieldAttempts(doc, selector, options.retryCount) = options.retryCount

\* the README's limit of child links processed per page
MaxChildLinks == 5

\* C15: no page has more than 5 of its links processed as child pages.
C15_AtMostFiveChildLinks ==
  \A p \in DOMAIN loaded : Len(CallsFrom(p)) <= MaxChildLinks

\* the activations that hold a launched browser
HoldingBrowser == {k \in 1..Len(stack) : stack[k].phase # "launch"}

\* C17 as stated: at every moment of a crawl at most one browser is open,
\* also while a page's children are traversed.
C17_AtMostOneBrowser == browsers <= 1

\* C17: the browser of a page's scrape is closed before the scrape of its
\* next sibling begins; the open browsers are those of the page being scraped
\* and of its ancestors, whose browsers stay open while their children are
\* traversed: at most currentDepth + 1 <= maxDepth + 1 at any moment.
C17_BrowsersOnCurrentPathOnly ==
  /\ browsers = Cardinality(HoldingBrowser)
  /\ status = "running" => browsers <= Top.currentDepth + 1
  /\ status = "running" => browsers <= options.maxDepth + 1
  /\ \A i, j \in Gotos :
       (i < j /\ trace[i].parent = trace[j].parent) =>
         \E c \in Settles : i < c /\ c < j /\ trace[c].url = trace[i].url

\* a second child is being scraped: its browser and its parent's are open,
\* the first child's is closed
C17_Witness ==
  /\ Len(stack) = 2
  /\ stack[1].idx = 2
  /\ Top.phase = "goto"
  /\ browsers = 2
  /\ \E c \in Settles : trace[c].parent = Some(stack[1].url)

\* C18: when the scraping call has returned or failed, every browser launched
\* during it is closed.
C18_AllBrowsersClosedAtExit ==
  status \in {"returned", "failed"} => browsers = 0

\* the call failed on a child page after three browsers were launched
C18_Witness ==
  /\ status = "failed"
  /\ Cardinality(Gotos) >= 3
  /\ error[1].at # Some(seedUrl)
  /\ browsers = 0

\* the results in the childPages under construction of every activation
ChildResults ==
  UNION {{<<stack[k].url, stack[k].childPages[n]>> :
            n \in 1..Len(stack[k].childPages)} : k \in 1..Len(stack)}

\* C19 as stated: scrapeWebPage is never called on a URL that is in the
\* visited set at the call, and no childPages holds an "Already visited"
\* placeholder.
C19_NoPlaceholderInResults ==
  /\ \A i \in Calls : ~RepeatedCall(i)
  /\ \A c \in ChildResults : c[2].title # "Already visited"

\* C19: a page's links are tested against the visited set once, when the
\* page's links are filtered: every child call is on a URL that was not
\* visited then.  A link visited since, inside the subtree of an earlier
\* sibling, is still called; that call navigates nothing and its "Already
\* visited" placeholder is an entry of childPages.  Every other entry is the
\* result of a navigation.
C19_LinksTestedWhenFiltered ==
  /\ \A i \in Calls :
       trace[i].parent # None =>
         /\ trace[i].parent[1] \in DOMAIN loaded
         /\ trace[i].url \notin loaded[trace[i].parent[1]].visited
         /\ trace[i].url \in Range(loaded[trace[i].parent[1]].validLinks)
  /\ \A c \in ChildResults :
       IF c[2].title = "Already visited"
       THEN /\ c[2] = AlreadyVisited(c[2].url)
            /\ \E i, j \in Calls :
                 /\ i < j
                 /\ trace[i].url = c[2].url
                 /\ trace[j].url = c[2].url
                 /\ trace[j].parent = Some(c[1])
                 /\ \E g \in Gotos : g < i /\ trace[g].url = c[1]
       ELSE c[2].url \in Navigated

\* the returned tree has a placeholder among the seed's children, for a link
\* that was reached first under an earlier sibling
C19_Witness ==
  /\ status = "returned"
  /\ result[1].childPages # None
  /\ \E n \in 2..Len(result[1].childPages[1]) :
       /\ result[1].childPages[1][n].title = "Already visited"
       /\ \E i \in Calls :
            /\ trace[i].url = result[1].childPages[1][n].url
            /\ trace[i].parent = Some(result[1].childPages[1][1].url)

\* the work of a crawl is bounded: the recursion is at most maxDepth + 1
\* activations deep and a page makes at most one call per link it kept
BoundedWork ==
  /\ Len(stack) <= options.maxDepth + 1
  /\ \A p \in DOMAIN loaded : Len(CallsFrom(p)) <= Len(loaded[p].validLinks)

\* C20: on every finite web, cyclic or not, with every maxDepth up to 10 and
\* either breakWhenFailed, a scraping call whose browser operations all
\* complete or fail returns a result or fails: the recursion and every loop
\* over links are bounded, and the call eventually settles.
C20_ScrapingTerminates ==
  /\ [](status = "running" => BoundedWork)
  /\ <>(status \in {"returned", "failed"})

\* a crawl of a cyclic web with the largest maxDepth has returned, after a
\* call on a URL already visited
C20_Witness ==
  /\ status = "returned"
  /\ options.maxDepth = MAX_DEEPEST_DEPTH
  /\ \E i \in Calls : RepeatedCall(i)
  /\ Cardinality(Navigated) >= 3

====
